---- MODULE Spec2Model ----
(***************************************************************************)
(* A model of layout_check.py: the `diff` command of layout-check, its     *)
(* collector (_collect_layouts), the artifact identifier resolver          *)
(* (_artifact_contract_ids) and the diff engine (_diff_one).               *)
(*                                                                         *)
(* Text is modelled as a sequence of atoms: single characters where the    *)
(* code looks at characters (integer literals, the type normalisation,     *)
(* table rows), and pieces the code never splits elsewhere (path           *)
(* components such as "src/"), so that str.startswith, int() and re.sub    *)
(* are computed, not assumed.                                              *)
(***************************************************************************)
EXTENDS Integers, Sequences, FiniteSets, TLC

VARIABLES
    \* ---- the `diff` command (driver + collector) ----
    pc,            \* position of the single thread of control inside diff()
    dirty,         \* repo.is_dirty(untracked_files=True) at start
    ref_ok,        \* [{"old","new"} -> BOOLEAN]: does git know the revision
    path,          \* the --path option: a sequence of prefixes (<<>> = None)
    phase,         \* which revision is being collected: "old" / "new"
    log,           \* every call made to an external collaborator, in order
    all_idents,    \* _collect_layouts: all_idents
    idx,           \* _collect_layouts: idx of the enumerate() loop
    entries,       \* _collect_layouts: the local `entries` (survives iterations)
    layouts,       \* _collect_layouts: layouts
    given,         \* the raw text forge returned for each inspected identifier
    old_layouts,   \* diff: old_layouts
    new_layouts,   \* diff: new_layouts
    pending,       \* exit status of the exception in flight (NoExc = none)
    exit_code,     \* exit status of the process (NoExc = still running)
    out,           \* lines printed by _diff_one
    \* ---- _diff_one applied to one pair of record lists ----
    d_old, d_new, d_res, d_pc,
    \* ---- _artifact_contract_ids + the include filter, applied to one out/ ----
    r_files, r_include, r_res, r_pc

driver_vars == <<pc, dirty, ref_ok, path, phase, log, all_idents, idx, entries,
                 layouts, given, old_layouts, new_layouts, pending, exit_code, out>>
diff_vars == <<d_old, d_new, d_res, d_pc>>
res_vars  == <<r_files, r_include, r_res, r_pc>>
vars == <<driver_vars, diff_vars, res_vars>>

(***************************************************************************)
(* Bounds                                                                  *)
(***************************************************************************)
MaxLen == 2          \* longest record list handed to _diff_one
MaxFiles == 2        \* most metadata files under out/
MaxIds == 2          \* most identifiers handed to the loop of _collect_layouts

(***************************************************************************)
(* Text                                                                    *)
(***************************************************************************)
S1(a) == <<a>>

BoundedSeq(S, n) == UNION {[1..k -> S] : k \in 0..n}

ToSet(s) == {s[i] : i \in DOMAIN s}

\* str.startswith
StartsWith(s, p) == Len(p) <= Len(s) /\ SubSeq(s, 1, Len(p)) = p

Digits == {"0", "1", "2", "3", "4", "5", "6", "7", "8", "9"}

\* code points, as far as the order of the atoms used here goes
Ord(c) ==
    CASE c = ")" -> 41
      [] c = "0" -> 48 [] c = "1" -> 49 [] c = "2" -> 50 [] c = "3" -> 51
      [] c = "4" -> 52 [] c = "5" -> 53 [] c = "6" -> 54 [] c = "7" -> 55
      [] c = "8" -> 56 [] c = "9" -> 57
      [] c = "a" -> 97 [] c = "b" -> 98 [] c = "m" -> 109 [] c = "u" -> 117
      [] c = "x" -> 120 [] c = "y" -> 121 [] c = "z" -> 122
      \* an atom of several characters is ordered by its first one
      [] c = "." -> 46 [] c = ".sol" -> 46 [] c = ":" -> 58
      [] c = "Bar" -> 66 [] c = "Foo" -> 70
      [] c = "lib/" -> 108 [] c = "src/" -> 115 [] c = "test/" -> 116
      [] OTHER -> 63

RECURSIVE StrLess(_, _)
StrLess(a, b) ==
    IF a = <<>> THEN b # <<>>
    ELSE IF b = <<>> THEN FALSE
    ELSE IF Head(a) = Head(b) THEN StrLess(Tail(a), Tail(b))
    ELSE Ord(Head(a)) < Ord(Head(b))

(***************************************************************************)
(* Records: (slot, offset, label, type)                                    *)
(***************************************************************************)
\* Python's order on the 4-tuples
EntryLess(a, b) ==
    \/ a[1] < b[1]
    \/ a[1] = b[1] /\ a[2] < b[2]
    \/ a[1] = b[1] /\ a[2] = b[2] /\ StrLess(a[3], b[3])
    \/ a[1] = b[1] /\ a[2] = b[2] /\ a[3] = b[3] /\ StrLess(a[4], b[4])

_entry_key(e) == <<e[3], e[4]>>

\* sorted(set): the one ascending sequence of the set's elements
RECURSIVE SortedEntries(_)
SortedEntries(S) ==
    IF S = {} THEN <<>>
    ELSE LET m == CHOOSE e \in S : \A f \in S \ {e} : EntryLess(e, f)
         IN <<m>> \o SortedEntries(S \ {m})

\* {_entry_key(e): e for e in lst}: the last record of each key wins
ByKey(lst) ==
    [k \in {_entry_key(lst[i]) : i \in DOMAIN lst} |->
        lst[CHOOSE i \in DOMAIN lst :
                /\ _entry_key(lst[i]) = k
                /\ \A j \in DOMAIN lst : j > i => _entry_key(lst[j]) # k]]

\* the key of sorted(moves, key=...)
MoveSortKeyLess(p, q) ==
    \/ p[1][1] < q[1][1]
    \/ p[1][1] = q[1][1] /\ p[1][2] < q[1][2]

\* sorted() is stable: insert after the last element that is not greater
RECURSIVE InsertMove(_, _)
InsertMove(s, p) ==
    IF s = <<>> THEN <<p>>
    ELSE IF MoveSortKeyLess(p, Head(s)) THEN <<p>> \o s
    ELSE <<Head(s)>> \o InsertMove(Tail(s), p)

RECURSIVE SortedMoves(_)
SortedMoves(ms) ==
    IF ms = <<>> THEN <<>>
    ELSE InsertMove(SortedMoves(SubSeq(ms, 1, Len(ms) - 1)), ms[Len(ms)])

\* a move loop that records the move and leaves removed and added alone
RECURSIVE MoveLoopNoDiscard(_, _, _, _)
MoveLoopNoDiscard(order, old_by_key, new_by_key, acc) ==
    IF order = <<>> THEN acc
    ELSE LET o == old_by_key[Head(order)]
             n == new_by_key[Head(order)]
         IN IF <<o[1], o[2]>> # <<n[1], n[2]>>
            THEN MoveLoopNoDiscard(Tail(order), old_by_key, new_by_key,
                          [removed |-> acc.removed,
                           added   |-> acc.added,
                           moves   |-> Append(acc.moves, <<o, n>>)])
            ELSE MoveLoopNoDiscard(Tail(order), old_by_key, new_by_key, acc)

\* the loop `for k in set(old_by_key) & set(new_by_key)`, visiting the keys
\* in the order `order` (the iteration order of a Python set is arbitrary)
RECURSIVE MoveLoop(_, _, _, _)
MoveLoop(order, old_by_key, new_by_key, acc) ==
    IF order = <<>> THEN acc
    ELSE LET o == old_by_key[Head(order)]
             n == new_by_key[Head(order)]
         IN IF <<o[1], o[2]>> # <<n[1], n[2]>>
            THEN MoveLoop(Tail(order), old_by_key, new_by_key,
                          [removed |-> acc.removed \ {o},
                           added   |-> acc.added \ {n},
                           moves   |-> Append(acc.moves, <<o, n>>)])
            ELSE MoveLoop(Tail(order), old_by_key, new_by_key, acc)

NoEntry == <<0, 0, <<>>, <<>>>>

Line(kind, name, o, n) == [kind |-> kind, name |-> name, old |-> o, new |-> n]

\* contract.split(':')[-1]
RECURSIVE LastComponent(_)
LastComponent(s) ==
    IF \E i \in DOMAIN s : s[i] = ":"
    THEN LastComponent(SubSeq(s, (CHOOSE i \in DOMAIN s : s[i] = ":") + 1, Len(s)))
    ELSE s

CommonKeys(old_, new_) == (DOMAIN ByKey(old_)) \cap (DOMAIN ByKey(new_))

\* the orders in which a set can be iterated
Orders(S) == {s \in [1..Cardinality(S) -> S] : ToSet(s) = S}

\* a _diff_one without the early return of lines 223-224
DiffOneAlwaysHeader(contract, old_, new_, order) ==
    LET r == MoveLoop(order, ByKey(old_), ByKey(new_),
                      [removed |-> ToSet(old_) \ ToSet(new_),
                       added   |-> ToSet(new_) \ ToSet(old_),
                       moves   |-> <<>>])
        sm == SortedMoves(r.moves)
        sr == SortedEntries(r.removed)
        sa == SortedEntries(r.added)
    IN [removed |-> r.removed, added |-> r.added, moves |-> r.moves,
        lines |->
          <<Line("header", LastComponent(contract), NoEntry, NoEntry)>>
          \o [i \in 1..Len(sm) |-> Line("move", <<>>, sm[i][1], sm[i][2])]
          \o [i \in 1..Len(sr) |-> Line("removed", <<>>, sr[i], sr[i])]
          \o [i \in 1..Len(sa) |-> Line("added", <<>>, sa[i], sa[i])]]

\* _diff_one: what it computes (removed, added, moves) and what it prints
_diff_one(contract, old_, new_, order) ==
    LET r == MoveLoop(order, ByKey(old_), ByKey(new_),
                      [removed |-> ToSet(old_) \ ToSet(new_),
                       added   |-> ToSet(new_) \ ToSet(old_),
                       moves   |-> <<>>])
        sm == SortedMoves(r.moves)
        sr == SortedEntries(r.removed)
        sa == SortedEntries(r.added)
    IN [removed |-> r.removed, added |-> r.added, moves |-> r.moves,
        lines |->
          IF r.removed = {} /\ r.added = {} /\ r.moves = <<>> THEN <<>>
          ELSE <<Line("header", LastComponent(contract), NoEntry, NoEntry)>>
               \o [i \in 1..Len(sm) |-> Line("move", <<>>, sm[i][1], sm[i][2])]
               \o [i \in 1..Len(sr) |-> Line("removed", <<>>, sr[i], sr[i])]
               \o [i \in 1..Len(sa) |-> Line("added", <<>>, sa[i], sa[i])]]

(***************************************************************************)
(* Layout normaliser: the body of the loop of _collect_layouts             *)
(***************************************************************************)
DigitVal(c) ==
    CASE c = "0" -> 0 [] c = "1" -> 1 [] c = "2" -> 2 [] c = "3" -> 3
      [] c = "4" -> 4 [] c = "5" -> 5 [] c = "6" -> 6 [] c = "7" -> 7
      [] c = "8" -> 8 [] c = "9" -> 9 [] c = "a" -> 10 [] c = "b" -> 11
      [] OTHER -> 99

RECURSIVE DigitsValue(_, _, _)
DigitsValue(s, base, acc) ==
    IF s = <<>> THEN acc
    ELSE DigitsValue(Tail(s), base, acc * base + DigitVal(Head(s)))

AllDigits(s, base) == s # <<>> /\ \A i \in DOMAIN s : DigitVal(s[i]) < base

\* the result of a conversion that may raise
Ok(v) == [ok |-> TRUE, v |-> v]
Err == [ok |-> FALSE, v |-> 0]

\* int(s): a decimal literal (leading zeros allowed)
IntDec(s) == IF AllDigits(s, 10) THEN Ok(DigitsValue(s, 10, 0)) ELSE Err

\* int(s, 0): the base is read off the prefix; a decimal literal with a
\* leading zero is accepted only when it is zero
IntAuto(s) ==
    IF StartsWith(s, <<"0", "x">>)
    THEN LET h == SubSeq(s, 3, Len(s))
         IN IF AllDigits(h, 16) THEN Ok(DigitsValue(h, 16, 0)) ELSE Err
    ELSE IF AllDigits(s, 10) /\ (s[1] # "0" \/ \A i \in DOMAIN s : s[i] = "0")
         THEN Ok(DigitsValue(s, 10, 0))
         ELSE Err

\* a field of a JSON item: absent, a number or a string
Missing == [k |-> "missing", v |-> 0, s |-> <<>>]
Num(n) == [k |-> "int", v |-> n, s |-> <<>>]
Str(s) == [k |-> "str", v |-> 0, s |-> s]

RECURSIVE DropDigits(_)
DropDigits(t) ==
    IF t # <<>> /\ Head(t) \in Digits THEN DropDigits(Tail(t)) ELSE t

\* re.sub(r"\)\d+", ")", typ_raw)
RECURSIVE StripTypeIds(_)
StripTypeIds(t) ==
    IF t = <<>> THEN <<>>
    ELSE IF Head(t) = ")" /\ Len(t) >= 2 /\ t[2] \in Digits
         THEN <<")">> \o StripTypeIds(DropDigits(Tail(t)))
         ELSE <<Head(t)>> \o StripTypeIds(Tail(t))

\* one item of the structured shape -> a record, or an exception
ParseItem(it) ==
    LET slot == CASE it.slot.k = "missing" -> Err            \* KeyError
                  [] it.slot.k = "str" -> IntAuto(it.slot.s)
                  [] OTHER -> Ok(it.slot.v)
        offset == CASE it.offset.k = "missing" -> Ok(0)
                    [] it.offset.k = "str" -> IntDec(it.offset.s)
                    [] OTHER -> Ok(it.offset.v)
        label == IF it.label.k = "missing" THEN <<>> ELSE it.label.s
        typ == IF it.type.k = "missing" THEN Ok(<<>>)
               ELSE IF it.type.k = "str" THEN Ok(StripTypeIds(it.type.s))
               ELSE Err                                \* re.sub on a non-string
    IN IF slot.ok /\ offset.ok /\ typ.ok
       THEN Ok(<<slot.v, offset.v, label, typ.v>>)
       ELSE Err

\* `for it in items`: the records appended so far, and whether an item raised
RECURSIVE ParseItems(_, _)
ParseItems(items, acc) ==
    IF items = <<>> THEN [ok |-> TRUE, v |-> acc]
    ELSE LET r == ParseItem(Head(items))
         IN IF r.ok THEN ParseItems(Tail(items), Append(acc, r.v))
            ELSE [ok |-> FALSE, v |-> acc]

IsSpace(c) == c = " "

RECURSIVE LStrip(_)
LStrip(s) == IF s # <<>> /\ IsSpace(Head(s)) THEN LStrip(Tail(s)) ELSE s

RECURSIVE RStrip(_)
RStrip(s) ==
    IF s # <<>> /\ IsSpace(s[Len(s)]) THEN RStrip(SubSeq(s, 1, Len(s) - 1)) ELSE s

\* str.strip
Strip(s) == RStrip(LStrip(s))

\* str.split("|")
RECURSIVE SplitBar(_, _)
SplitBar(s, cur) ==
    IF s = <<>> THEN <<cur>>
    ELSE IF Head(s) = "|" THEN <<cur>> \o SplitBar(Tail(s), <<>>)
    ELSE SplitBar(Tail(s), Append(cur, Head(s)))

\* str.lower, on the capitals used here
Lower(s) == [i \in DOMAIN s |-> IF s[i] = "V" THEN "v" ELSE s[i]]

Variable == <<"v", "a", "r", "i", "a", "b", "l", "e">>

\* [c.strip() for c in line.strip().split("|")[1:-1]]
Cols(line) ==
    LET parts == SplitBar(Strip(line), <<>>)
    IN [i \in 1..(Len(parts) - 2) |-> Strip(parts[i + 1])]

\* the table fallback: `for line in raw.splitlines()`
RECURSIVE ParseTable(_, _)
ParseTable(lines, acc) ==
    IF lines = <<>> THEN acc
    ELSE LET line == Head(lines)
             cols == Cols(line)
         IN IF ~StartsWith(line, <<"|">>) THEN ParseTable(Tail(lines), acc)
            ELSE IF Len(cols) < 5 \/ Lower(cols[1]) \in {Variable, <<>>}
                 THEN ParseTable(Tail(lines), acc)
            ELSE IF ~(IntDec(cols[3]).ok /\ IntDec(cols[4]).ok)
                 THEN ParseTable(Tail(lines), acc)
            ELSE ParseTable(Tail(lines),
                            Append(acc, <<IntDec(cols[3]).v, IntDec(cols[4]).v,
                                          cols[1], cols[2]>>))

\* a _run that goes on whatever the status
RunFailsNever(rc) == FALSE

\* _run, lines 46-50: a non-zero status raises typer.Exit(status)
RunFails(rc) == rc # 0

\* What `forge inspect` gave back: its exit status and its stdout. The text is
\* either a JSON document (top: what its top-level value is; items: the list
\* it holds) or plain text (lines), on which json.loads raises JSONDecodeError.
Output(rc, shape, top, items, lines) ==
    [rc |-> rc, shape |-> shape, top |-> top, items |-> items, lines |-> lines]

\* raw.strip() is empty
IsBlank(o) == o.shape = "text" /\ \A i \in DOMAIN o.lines : Strip(o.lines[i]) = <<>>

\* the loop body without its `continue` statements: whatever `entries`
\* holds after the iteration is stored
CollectOneNoContinue(prev, o) ==
    IF RunFails(o.rc) THEN [entries |-> prev, skip |-> FALSE]
    ELSE IF IsBlank(o) THEN [entries |-> prev, skip |-> FALSE]
    ELSE IF o.shape = "json"
    THEN CASE o.top \in {"storage", "list"} ->
                [entries |-> ParseItems(o.items, <<>>).v, skip |-> FALSE]
           [] OTHER -> [entries |-> <<>>, skip |-> FALSE]
    ELSE [entries |-> ParseTable(o.lines, <<>>), skip |-> FALSE]

\* One iteration of the loop of _collect_layouts, lines 145-181: the value
\* of `entries` afterwards and whether the iteration ended in `continue`.
CollectOne(prev, o) ==
    IF RunFails(o.rc) THEN [entries |-> prev, skip |-> TRUE] \* _run raised
    ELSE IF IsBlank(o) THEN [entries |-> prev, skip |-> TRUE]
    ELSE IF o.shape = "json"
    THEN CASE o.top \in {"storage", "list"} ->
                LET r == ParseItems(o.items, <<>>)
                IN [entries |-> r.v, skip |-> ~r.ok]
           [] o.top = "emptydict" -> [entries |-> <<>>, skip |-> FALSE]
           \* a mapping without "storage" iterates over its keys, a number
           \* cannot be iterated: TypeError after `entries = []`
           [] OTHER -> [entries |-> <<>>, skip |-> TRUE]
    ELSE [entries |-> ParseTable(o.lines, <<>>), skip |-> FALSE]

(***************************************************************************)
(* Artifact identifier resolver                                            *)
(***************************************************************************)
_IGNORE_PREFIXES == <<S1("lib/"), S1("test/"), S1("script/")>>

EndsWith(s, p) == Len(p) <= Len(s) /\ SubSeq(s, Len(s) - Len(p) + 1, Len(s)) = p

\* A file out/<parts...>/<name>. `top` says what json.loads(read_text())
\* gives: "unreadable" (it raises), "dict", or another JSON value ("list").
\* The fields are those of the mapping; <<>> stands for an absent or empty
\* one (both are falsy). md says what meta.get("metadata") is: "missing",
\* "badstr" (a string json.loads rejects), "notdict" (no .get), or "dict"
\* with compilationTarget `target` (a sequence of <<source, name>> entries).
Artifact(parts, name, top, sourcePath, sourceName, contractName, md, target) ==
    [parts |-> parts, name |-> name, top |-> top, sourcePath |-> sourcePath,
     sourceName |-> sourceName, contractName |-> contractName,
     md |-> md, target |-> target]

\* Path(...).as_posix() of the components
RECURSIVE JoinPath(_)
JoinPath(parts) ==
    IF parts = <<>> THEN <<>>
    ELSE IF Len(parts) = 1 THEN parts[1]
    ELSE parts[1] \o <<"/">> \o JoinPath(Tail(parts))

\* art.stem
Stem(name) == SubSeq(name, 1, Len(name) - 1)

\* lines 78-109: the identifier of one artifact. kind is "skip" (continue),
\* "raise" (an exception leaves the function) or "id".
IdentOf(art) ==
    IF EndsWith(art.name, <<".dbg", ".json">>)
       \/ \E i \in DOMAIN art.parts : art.parts[i] = S1("build-info")
    THEN [kind |-> "skip", id |-> <<>>]
    ELSE IF art.top = "unreadable" THEN [kind |-> "skip", id |-> <<>>]
    ELSE IF art.top # "dict" THEN [kind |-> "raise", id |-> <<>>]  \* meta.get
    ELSE
    LET source1 == IF art.sourcePath # <<>> THEN art.sourcePath ELSE art.sourceName
        name1 == art.contractName
        useTarget == art.md = "dict" /\ art.target # <<>>
        source2 == IF useTarget THEN art.target[1][1] ELSE source1
        name2 == IF useTarget THEN art.target[1][2] ELSE name1
        source3 == IF source2 = <<>> /\ art.parts # <<>>
                      /\ EndsWith(art.parts[Len(art.parts)], <<".sol">>)
                   THEN JoinPath(art.parts) ELSE source2
        name3 == IF name2 = <<>> THEN Stem(art.name) ELSE name2
    IN IF source3 = <<>> \/ name3 = <<>> THEN [kind |-> "skip", id |-> <<>>]
       ELSE [kind |-> "id", id |-> source3 \o <<":">> \o name3]

\* lines 113-114
Ignored(ident) ==
    \E i \in DOMAIN _IGNORE_PREFIXES : StartsWith(ident, _IGNORE_PREFIXES[i])

\* the loop over Path("out").rglob("*.json"), in the order `files`
RECURSIVE Scan(_, _)
Scan(files, id_list) ==
    IF files = <<>> THEN [raised |-> FALSE, ids |-> id_list]
    ELSE LET r == IdentOf(Head(files))
         IN CASE r.kind = "raise" -> [raised |-> TRUE, ids |-> <<>>]
              [] r.kind = "skip" -> Scan(Tail(files), id_list)
              [] OTHER ->
                   IF Ignored(r.id) THEN Scan(Tail(files), id_list)
                   ELSE IF r.id \in ToSet(id_list) THEN Scan(Tail(files), id_list)
                   ELSE Scan(Tail(files), Append(id_list, r.id))

_artifact_contract_ids(files) == Scan(files, <<>>)

\* _collect_layouts, lines 136-139
Keep(i, include_paths) ==
    \E k \in DOMAIN include_paths : StartsWith(i, include_paths[k])

RECURSIVE FilterIds(_, _)
FilterIds(ids, include_paths) ==
    IF ids = <<>> THEN <<>>
    ELSE IF Keep(Head(ids), include_paths)
         THEN <<Head(ids)>> \o FilterIds(Tail(ids), include_paths)
         ELSE FilterIds(Tail(ids), include_paths)

\* _collect_layouts, lines 135-139: all_idents, or the exception
ResolveIdents(files, include_paths) ==
    LET r == _artifact_contract_ids(files)
    IN IF r.raised THEN r
       ELSE IF include_paths # <<>>
            THEN [raised |-> FALSE, ids |-> FilterIds(r.ids, include_paths)]
            ELSE r

(***************************************************************************)
(* Inputs: metadata files and inspector outputs                            *)
(***************************************************************************)
Sol(n) == <<n, ".sol">>
Json(n) == <<n, ".json">>
NoMd == <<>>
Target(src, name) == <<<<src, name>>>>

A_Foo == Artifact(<<Sol("Foo")>>, Json("Foo"), "dict", <<>>, <<>>, <<>>,
                  "dict", Target(<<"src/", "Foo", ".sol">>, S1("Foo")))
A_FooCopy == Artifact(<<Sol("Copy")>>, Json("Foo"), "dict",
                  <<"src/", "Foo", ".sol">>, <<>>, S1("Foo"), "missing", NoMd)
A_Bar == Artifact(<<Sol("Bar")>>, Json("Bar"), "dict",
                  <<>>, <<"src/", "Bar", ".sol">>, S1("Bar"), "badstr", NoMd)
A_Test == Artifact(<<<<"Foo", ".t", ".sol">>>>, Json("FooTest"), "dict", <<>>, <<>>, <<>>,
                  "dict", Target(<<"test/", "Foo", ".t", ".sol">>, S1("FooTest")))
A_Lib == Artifact(<<Sol("Std")>>, Json("Std"), "dict",
                  <<"lib/", "Std", ".sol">>, <<>>, S1("Std"), "notdict", NoMd)
A_Baz == Artifact(<<Sol("Baz")>>, Json("Baz"), "dict", <<>>, <<>>, <<>>, "missing", NoMd)
A_Dbg == Artifact(<<Sol("Foo")>>, <<"Foo", ".dbg", ".json">>, "dict",
                  <<"src/", "Dbg", ".sol">>, <<>>, S1("Dbg"), "missing", NoMd)
A_Info == Artifact(<<S1("build-info")>>, Json("abc"), "dict",
                  <<"src/", "Info", ".sol">>, <<>>, S1("Info"), "missing", NoMd)
A_Unreadable == Artifact(<<Sol("Bad")>>, Json("Bad"), "unreadable",
                  <<>>, <<>>, <<>>, "missing", NoMd)
A_List == Artifact(<<Sol("Arr")>>, Json("Arr"), "list", <<>>, <<>>, <<>>, "missing", NoMd)
A_NoSource == Artifact(<<>>, Json("x"), "dict", <<>>, <<>>, <<>>, "dict", NoMd)

Artifacts == {A_Foo, A_FooCopy, A_Bar, A_Test, A_Lib, A_Baz, A_Dbg, A_Info,
              A_Unreadable, A_List, A_NoSource}

\* out/ as rglob lists it: different files, in any order
OutDirs(n) ==
    {fs \in BoundedSeq(Artifacts, n) :
        \A i, j \in DOMAIN fs : i # j => <<fs[i].parts, fs[i].name>> # <<fs[j].parts, fs[j].name>>}

IncludePaths == {<<>>, <<S1("test/")>>, <<S1("src/")>>, <<S1("lib/"), S1("src/")>>}

Item(slot, offset, label, type) ==
    [slot |-> slot, offset |-> offset, label |-> label, type |-> type]

Row(a, b, c, d, e) ==
    <<"|", " ">> \o a \o <<" ", "|", " ">> \o b \o <<" ", "|">> \o c \o <<"|">>
    \o d \o <<" ", "|", " ">> \o e \o <<"|">>

\* the outputs of `forge inspect` the runs draw from
RawNames == {"fail", "empty", "garbage", "number", "nostorage", "baditem",
             "zero", "one", "moved", "dup", "typed", "table"}

Raw(name) ==
    CASE name = "fail" -> Output(1, "text", "", <<>>, <<>>)
      [] name = "empty" -> Output(0, "text", "", <<>>, << <<" ">> >>)
      [] name = "garbage" -> Output(0, "text", "", <<>>, << <<"x", " ", "|">> >>)
      [] name = "number" -> Output(0, "json", "number", <<>>, <<>>)
      [] name = "nostorage" -> Output(0, "json", "dict", <<>>, <<>>)
      [] name = "baditem" ->
            Output(0, "json", "storage",
                   <<Item(Num(0), Num(0), Str(S1("x")), Str(S1("u"))),
                     Item(Missing, Num(0), Str(S1("y")), Str(S1("u")))>>, <<>>)
      [] name = "zero" -> Output(0, "json", "storage", <<>>, <<>>)
      [] name = "one" ->
            Output(0, "json", "storage",
                   <<Item(Str(S1("1")), Num(0), Str(S1("x")), Str(S1("u")))>>, <<>>)
      [] name = "moved" ->
            Output(0, "json", "list",
                   <<Item(Str(<<"0", "x", "1", "0">>), Missing, Str(S1("x")), Str(S1("u")))>>,
                   <<>>)
      [] name = "dup" ->
            Output(0, "json", "storage",
                   <<Item(Num(1), Num(0), Str(S1("x")), Str(S1("u"))),
                     Item(Num(2), Str(S1("0")), Str(S1("x")), Str(S1("u"))),
                     Item(Num(1), Num(0), Str(S1("x")), Str(S1("u")))>>, <<>>)
      [] name = "typed" ->
            Output(0, "json", "storage",
                   <<Item(Num(3), Num(1), Str(S1("z")),
                          Str(<<"m", "(", "u", ")", "1", "2", "a", ")", "7">>))>>, <<>>)
      [] OTHER ->  \* "table"
            Output(0, "text", "", <<>>,
                   <<S1("x"),
                     Row(<<"V", "a", "r", "i", "a", "b", "l", "e">>, S1("t"), S1("s"), S1("o"), S1("b")),
                     Row(S1("-"), S1("-"), S1("-"), S1("-"), S1("-")),
                     Row(S1("y"), S1("u"), S1("3"), <<"0", "1">>, <<"3", "2">>),
                     <<"|", "y", "|", "u", "|", "3", "|">>>>)

(***************************************************************************)
(* The `diff` command                                                      *)
(***************************************************************************)
RetCodes == {0, 1, 2}

\* the out/ directories a build of the driver's runs may leave behind
DriverOutDirs == {<<A_Foo, A_Bar>>, <<A_Test, A_Bar>>, <<A_Foo, A_List>>, <<>>}
DriverPaths == {<<>>, <<S1("src/")>>}

Status(code) == [set |-> TRUE, code |-> code]
NoStatus == [set |-> FALSE, code |-> 0]

Call(op, ph, ident, rc) == [op |-> op, phase |-> ph, ident |-> ident, rc |-> rc]

EmptyMap == [k \in {} |-> <<>>]

\* dict.get(c, [])
Get(m, c) == IF c \in DOMAIN m THEN m[c] ELSE <<>>

Put(m, c, v) == [k \in DOMAIN m \cup {c} |-> IF k = c THEN v ELSE m[k]]

\* sorted(set of identifiers)
RECURSIVE SortedIds(_)
SortedIds(S) ==
    IF S = {} THEN <<>>
    ELSE LET m == CHOOSE e \in S : \A f \in S \ {e} : StrLess(e, f)
         IN <<m>> \o SortedIds(S \ {m})

\* an exception that ends the process at once, as without try/finally
RaiseNoFinally(code) ==
    /\ pc' = "done"
    /\ pending' = Status(code)
    /\ exit_code' = Status(code)

\* An exception leaves the try block of diff (lines 271-276): control goes
\* to the finally block, the exception stays in flight.
Raise(code) ==
    /\ pc' = "finally"
    /\ pending' = Status(code)
    /\ UNCHANGED exit_code

\* a start that does not look at repo.is_dirty
StartNoDirtyCheck ==
    /\ pc = "start"
    /\ pc' = "checkout" /\ phase' = "old" /\ UNCHANGED exit_code
    /\ UNCHANGED <<dirty, ref_ok, path, log, all_idents, idx, entries, layouts,
                   given, old_layouts, new_layouts, pending, out>>
    /\ UNCHANGED <<diff_vars, res_vars>>

\* lines 263-269
Start ==
    /\ pc = "start"
    /\ IF dirty
       THEN pc' = "done" /\ exit_code' = Status(1) /\ UNCHANGED phase
       ELSE pc' = "checkout" /\ phase' = "old" /\ UNCHANGED exit_code
    /\ UNCHANGED <<dirty, ref_ok, path, log, all_idents, idx, entries, layouts,
                   given, old_layouts, new_layouts, pending, out>>
    /\ UNCHANGED <<diff_vars, res_vars>>

\* line 128: git raises GitCommandError on a revision it does not know
Checkout ==
    /\ pc = "checkout"
    /\ log' = Append(log, Call("checkout", phase, <<>>, IF ref_ok[phase] THEN 0 ELSE 1))
    /\ IF ref_ok[phase]
       THEN pc' = "submodule" /\ UNCHANGED <<pending, exit_code>>
       ELSE Raise(1)
    /\ UNCHANGED <<dirty, ref_ok, path, phase, all_idents, idx, entries, layouts,
                   given, old_layouts, new_layouts, out>>
    /\ UNCHANGED <<diff_vars, res_vars>>

\* line 130
Submodule ==
    /\ pc = "submodule"
    /\ \E rc \in {0, 1} :
          /\ log' = Append(log, Call("submodule", phase, <<>>, rc))
          /\ IF rc = 0
             THEN pc' = "clean" /\ UNCHANGED <<pending, exit_code>>
             ELSE Raise(1)
    /\ UNCHANGED <<dirty, ref_ok, path, phase, all_idents, idx, entries, layouts,
                   given, old_layouts, new_layouts, out>>
    /\ UNCHANGED <<diff_vars, res_vars>>

\* line 132
Clean ==
    /\ pc = "clean"
    /\ \E rc \in RetCodes :
          /\ log' = Append(log, Call("clean", phase, <<>>, rc))
          /\ IF RunFails(rc)
             THEN Raise(rc)
             ELSE pc' = "build" /\ UNCHANGED <<pending, exit_code>>
    /\ UNCHANGED <<dirty, ref_ok, path, phase, all_idents, idx, entries, layouts,
                   given, old_layouts, new_layouts, out>>
    /\ UNCHANGED <<diff_vars, res_vars>>

\* line 133
Build ==
    /\ pc = "build"
    /\ \E rc \in RetCodes :
          /\ log' = Append(log, Call("build", phase, <<>>, rc))
          /\ IF RunFails(rc)
             THEN Raise(rc)
             ELSE pc' = "resolve" /\ UNCHANGED <<pending, exit_code>>
    /\ UNCHANGED <<dirty, ref_ok, path, phase, all_idents, idx, entries, layouts,
                   given, old_layouts, new_layouts, out>>
    /\ UNCHANGED <<diff_vars, res_vars>>

\* lines 135-142: the build left some out/ behind
Resolve ==
    /\ pc = "resolve"
    /\ \E files \in DriverOutDirs :
          LET r == ResolveIdents(files, path)
          IN IF r.raised
             THEN Raise(1) /\ UNCHANGED <<all_idents, idx, entries, layouts, given>>
             ELSE /\ all_idents' = r.ids
                  /\ idx' = 1
                  /\ entries' = <<>>
                  /\ layouts' = EmptyMap
                  /\ given' = <<>>
                  /\ pc' = "inspect"
                  /\ UNCHANGED <<pending, exit_code>>
    /\ UNCHANGED <<dirty, ref_ok, path, phase, log, old_layouts, new_layouts, out>>
    /\ UNCHANGED <<diff_vars, res_vars>>

\* lines 143-184: one iteration of the loop over all_idents
Inspect ==
    /\ pc = "inspect"
    /\ idx <= Len(all_idents)
    /\ \E name \in RawNames :
          LET ident == all_idents[idx]
              o == Raw(name)
              r == CollectOne(entries, o)
          IN /\ log' = Append(log, Call("inspect", phase, ident, o.rc))
             /\ given' = Append(given, <<ident, name>>)
             /\ entries' = r.entries
             /\ layouts' = IF ~r.skip /\ r.entries # <<>>
                           THEN Put(layouts, ident, r.entries)
                           ELSE layouts
    /\ idx' = idx + 1
    /\ UNCHANGED <<pc, dirty, ref_ok, path, phase, all_idents, old_layouts,
                   new_layouts, pending, exit_code, out>>
    /\ UNCHANGED <<diff_vars, res_vars>>

\* line 186 and lines 273-276: the snapshot goes to the caller
Return ==
    /\ pc = "inspect"
    /\ idx > Len(all_idents)
    /\ IF phase = "old"
       THEN old_layouts' = layouts /\ phase' = "new" /\ pc' = "checkout"
            /\ UNCHANGED new_layouts
       ELSE new_layouts' = layouts /\ pc' = "finally" /\ UNCHANGED <<old_layouts, phase>>
    /\ UNCHANGED <<dirty, ref_ok, path, log, all_idents, idx, entries, layouts,
                   given, pending, exit_code, out>>
    /\ UNCHANGED <<diff_vars, res_vars>>

\* lines 277-283: the revision read at line 269 is checked out again (a
\* commit git knows, so this checkout is taken to succeed); a failure of
\* the submodule update is swallowed. An exception in flight then ends the
\* process with its status.
Finally ==
    /\ pc = "finally"
    /\ log' = log \o <<Call("checkout", "current", <<>>, 0),
                       Call("submodule", "current", <<>>, 0)>>
    /\ IF pending.set
       THEN pc' = "done" /\ exit_code' = pending /\ UNCHANGED idx
       ELSE pc' = "diff" /\ idx' = 1 /\ UNCHANGED exit_code
    /\ UNCHANGED <<dirty, ref_ok, path, phase, all_idents, entries, layouts,
                   given, old_layouts, new_layouts, pending, out>>
    /\ UNCHANGED <<diff_vars, res_vars>>

DiffOrder == SortedIds(DOMAIN old_layouts \cup DOMAIN new_layouts)

\* lines 285-286: one iteration of the loop over the identifiers
DiffNext ==
    /\ pc = "diff"
    /\ idx <= Len(DiffOrder)
    /\ LET c == DiffOrder[idx]
           o == Get(old_layouts, c)
           n == Get(new_layouts, c)
       IN \E order \in Orders(CommonKeys(o, n)) :
             out' = out \o _diff_one(c, o, n, order).lines
    /\ idx' = idx + 1
    /\ UNCHANGED <<pc, dirty, ref_ok, path, phase, log, all_idents, entries, layouts,
                   given, old_layouts, new_layouts, pending, exit_code>>
    /\ UNCHANGED <<diff_vars, res_vars>>

\* line 288 and the normal end of the command
Done ==
    /\ pc = "diff"
    /\ idx > Len(DiffOrder)
    /\ pc' = "done"
    /\ exit_code' = Status(0)
    /\ UNCHANGED <<dirty, ref_ok, path, phase, log, all_idents, idx, entries, layouts,
                   given, old_layouts, new_layouts, pending, out>>
    /\ UNCHANGED <<diff_vars, res_vars>>

DriverIdle ==
    /\ pc = "idle" /\ dirty = FALSE /\ ref_ok = [p \in {"old", "new"} |-> TRUE]
    /\ path = <<>> /\ phase = "old" /\ log = <<>> /\ all_idents = <<>> /\ idx = 1
    /\ entries = <<>> /\ layouts = EmptyMap /\ given = <<>>
    /\ old_layouts = EmptyMap /\ new_layouts = EmptyMap
    /\ pending = NoStatus /\ exit_code = NoStatus /\ out = <<>>

NoResult == [removed |-> {}, added |-> {}, moves |-> <<>>, lines |-> <<>>]

DiffIdle == d_old = <<>> /\ d_new = <<>> /\ d_res = NoResult /\ d_pc = "idle"

ResIdle ==
    /\ r_files = <<>> /\ r_include = <<>> /\ r_pc = "idle"
    /\ r_res = [raised |-> FALSE, ids |-> <<>>]

Init ==
    /\ pc = "start"
    /\ dirty \in BOOLEAN
    /\ ref_ok \in [{"old", "new"} -> BOOLEAN]
    /\ path \in DriverPaths
    /\ phase = "old" /\ log = <<>> /\ all_idents = <<>> /\ idx = 1
    /\ entries = <<>> /\ layouts = EmptyMap /\ given = <<>>
    /\ old_layouts = EmptyMap /\ new_layouts = EmptyMap
    /\ pending = NoStatus /\ exit_code = NoStatus /\ out = <<>>
    /\ DiffIdle /\ ResIdle

Next ==
    \/ Start \/ Checkout \/ Submodule \/ Clean \/ Build \/ Resolve
    \/ Inspect \/ Return \/ Finally \/ DiffNext \/ Done

Spec == Init /\ [][Next]_vars

(***************************************************************************)
(* _diff_one on every pair of record lists                                 *)
(***************************************************************************)
Records ==
    ({1, 2} \X {0, 1} \X {S1("x"), S1("y")} \X {S1("u")}) \cup {<<1, 0, S1("x"), S1("b")>>}

RecordLists == BoundedSeq(Records, MaxLen)

DiffOneCall ==
    /\ d_pc = "call"
    /\ \E order \in Orders(CommonKeys(d_old, d_new)) :
          d_res' = _diff_one(<<"src/", "Foo", ".sol", ":", "Foo">>, d_old, d_new, order)
    /\ d_pc' = "done"
    /\ UNCHANGED <<d_old, d_new>>
    /\ UNCHANGED <<driver_vars, res_vars>>

InitDiffOne ==
    /\ d_old \in RecordLists /\ d_new \in RecordLists
    /\ d_res = NoResult /\ d_pc = "call"
    /\ DriverIdle /\ ResIdle

NextDiffOne == DiffOneCall

SpecDiffOne == InitDiffOne /\ [][NextDiffOne]_vars

(***************************************************************************)
(* The loop of _collect_layouts on every list of identifiers               *)
(***************************************************************************)
CollectIdents == {IdentOf(A_Foo).id, IdentOf(A_Bar).id, IdentOf(A_Baz).id}

\* all_idents holds no identifier twice (lines 115-117)
IdentLists ==
    {l \in BoundedSeq(CollectIdents, MaxIds) : \A i, j \in DOMAIN l : l[i] = l[j] => i = j}

\* the old revision's collection, at line 141: checked out and built
InitCollect ==
    /\ pc = "inspect"
    /\ dirty = FALSE /\ ref_ok = [p \in {"old", "new"} |-> TRUE] /\ path = <<>>
    /\ phase = "old"
    /\ log = <<Call("checkout", "old", <<>>, 0), Call("submodule", "old", <<>>, 0),
               Call("clean", "old", <<>>, 0), Call("build", "old", <<>>, 0)>>
    /\ all_idents \in IdentLists
    /\ idx = 1 /\ entries = <<>> /\ layouts = EmptyMap /\ given = <<>>
    /\ old_layouts = EmptyMap /\ new_layouts = EmptyMap
    /\ pending = NoStatus /\ exit_code = NoStatus /\ out = <<>>
    /\ DiffIdle /\ ResIdle

NextCollect == Inspect \/ Return

SpecCollect == InitCollect /\ [][NextCollect]_vars

(***************************************************************************)
(* The resolver and the include filter on every out/                       *)
(***************************************************************************)
ResolveCall ==
    /\ r_pc = "call"
    /\ r_res' = ResolveIdents(r_files, r_include)
    /\ r_pc' = "done"
    /\ UNCHANGED <<r_files, r_include>>
    /\ UNCHANGED <<driver_vars, diff_vars>>

InitResolver ==
    /\ r_files \in OutDirs(MaxFiles) /\ r_include \in IncludePaths
    /\ r_res = [raised |-> FALSE, ids |-> <<>>] /\ r_pc = "call"
    /\ DriverIdle /\ DiffIdle

NextResolver == ResolveCall

SpecResolver == InitResolver /\ [][NextResolver]_vars

(***************************************************************************)
(* Properties                                                              *)
(***************************************************************************)
IsCollectionCall(c) == c.phase \in {"old", "new"}
IsRestore(c) == c.op = "checkout" /\ c.phase = "current"

\* C1: in every run that passes the dirty-tree check, the revision that was
\* current at the start is checked out after the last call made for a
\* collection and before the run ends, whether the collections succeeded or
\* one of them failed fatally; and nothing of the diff is printed before
\* that checkout.
C1_RestoreAlways ==
    /\ (pc = "done" /\ ~dirty) =>
          \E i \in DOMAIN log :
             /\ IsRestore(log[i])
             /\ \A j \in DOMAIN log : IsCollectionCall(log[j]) => j < i
             /\ \E j \in DOMAIN log : IsCollectionCall(log[j])
    /\ out # <<>> => \E i \in DOMAIN log : IsRestore(log[i])

\* C1 witness: a run ended by a build failure in the new revision's
\* collection, with the restoring checkout made.
C1_Witness ==
    /\ pc = "done" /\ phase = "new" /\ exit_code = Status(2)
    /\ \E i \in DOMAIN log : log[i].op = "build" /\ log[i].phase = "new" /\ log[i].rc = 2
    /\ IsRestore(log[Len(log) - 1])

\* the identifier (if any) each file of r_files resolves to
Resolved(files) ==
    {IdentOf(files[i]).id : i \in {k \in DOMAIN files : IdentOf(files[k]).kind = "id"}}

\* C2: an identifier that starts with a default ignore prefix is absent
\* from the identifiers inspected when no include-path filter is given, and
\* present when an include-path filter that is a prefix of it is supplied.
C2_IncludeOverridesIgnore ==
    (r_pc = "done" /\ ~r_res.raised) =>
        \A ident \in Resolved(r_files) :
            Ignored(ident) =>
                /\ r_include = <<>> => ident \notin ToSet(r_res.ids)
                /\ Keep(ident, r_include) => ident \in ToSet(r_res.ids)

Count(lst, e) == Cardinality({i \in DOMAIN lst : lst[i] = e})

IsPermutation(a, b) ==
    /\ Len(a) = Len(b)
    /\ \A e \in ToSet(a) \cup ToSet(b) : Count(a, e) = Count(b, e)

EmptyDiff(res) ==
    res.removed = {} /\ res.added = {} /\ res.moves = <<>> /\ res.lines = <<>>

\* C3: _diff_one applied to a record list and a permutation of it computes
\* empty removed, added and moved and prints nothing, also when several
\* records of the list share a (label, type) key.
C3_PermutationDiffEmpty ==
    (d_pc = "done" /\ IsPermutation(d_old, d_new)) => EmptyDiff(d_res)

Keys(lst) == {_entry_key(lst[i]) : i \in DOMAIN lst}

\* C4: after move detection every record left in removed has a
\* (label, type) key that no record of new has, and every record left in
\* added has a key that no record of old has, duplicates of a key included.
C4_RemovedAddedHaveNoCounterpart ==
    d_pc = "done" =>
        /\ \A e \in d_res.removed : _entry_key(e) \notin Keys(d_new)
        /\ \A e \in d_res.added : _entry_key(e) \notin Keys(d_old)

UniqueKeys(lst) ==
    \A i, j \in DOMAIN lst : _entry_key(lst[i]) = _entry_key(lst[j]) => i = j

ExpectedMoves(old_, new_) ==
    {<<o, n>> \in ToSet(old_) \X ToSet(new_) :
        _entry_key(o) = _entry_key(n) /\ <<o[1], o[2]>> # <<n[1], n[2]>>}

MoveLines(lines) == SelectSeq(lines, LAMBDA l : l.kind = "move")

X1 == <<1, 0, S1("x"), S1("u")>>
X2 == <<2, 0, S1("x"), S1("u")>>

\* C5: when each (label, type) key occurs at most once per list, moved
\* holds exactly the pairs (o, n) of an old and a new record with the same
\* key and different (slot, offset), none of these records is in removed
\* or added, and the moves are printed by ascending (slot, offset) of the
\* old record; old (1,0,x,uint256) against new (2,0,x,uint256) gives that
\* one move and nothing removed or added.
C5_MoveDetection ==
    (d_pc = "done" /\ UniqueKeys(d_old) /\ UniqueKeys(d_new)) =>
        LET exp == ExpectedMoves(d_old, d_new)
            ml == MoveLines(d_res.lines)
        IN /\ ToSet(d_res.moves) = exp
           /\ Len(d_res.moves) = Cardinality(exp)
           /\ \A p \in exp : {p[1], p[2]} \cap (d_res.removed \cup d_res.added) = {}
           /\ {<<ml[i].old, ml[i].new>> : i \in DOMAIN ml} = exp
           /\ Len(ml) = Cardinality(exp)
           /\ \A i, j \in DOMAIN ml :
                 i < j => ~MoveSortKeyLess(<<ml[j].old, ml[j].new>>, <<ml[i].old, ml[i].new>>)
           /\ (d_old = <<X1>> /\ d_new = <<X2>>) =>
                 /\ d_res.moves = <<<<X1, X2>>>>
                 /\ d_res.removed = {} /\ d_res.added = {}

\* C5 witness: two variables moved, visited by the loop in the order
\* opposite to the one they are printed in.
C5_Witness ==
    /\ d_pc = "done" /\ UniqueKeys(d_old) /\ UniqueKeys(d_new)
    /\ Len(d_res.moves) = 2
    /\ MoveSortKeyLess(d_res.moves[2], d_res.moves[1])
    /\ d_res.removed = {} /\ d_res.added = {}

IsMalformed(art) == art.top # "dict"

\* C6: _artifact_contract_ids never raises, whatever the metadata files
\* hold; it returns the identifiers it would return if the files that
\* cannot be read or are not of the expected shape were absent.
C6_ResolverNeverRaises ==
    r_pc = "done" =>
        /\ ~r_res.raised
        /\ r_res = ResolveIdents(SelectSeq(r_files, LAMBDA a : ~IsMalformed(a)), r_include)

IsBuildFailure(c) == c.op \in {"clean", "build"} /\ c.rc # 0

HasDuplicateKey(lst) == ~UniqueKeys(lst)

\* C9: when the two snapshots are the same, the diff loop prints nothing
\* for any identifier, also when a record list holds duplicate records or
\* duplicate (label, type) keys.
C9_SelfDiffEmpty ==
    (pc \in {"diff", "done"} /\ old_layouts = new_layouts) => out = <<>>

\* C9 witness: the diff loop has run over two equal snapshots that hold a
\* list with a duplicate record and a duplicate key.
C9_Witness ==
    /\ pc = "done" /\ exit_code = Status(0)
    /\ old_layouts = new_layouts
    /\ \E c \in DOMAIN old_layouts :
          /\ HasDuplicateKey(old_layouts[c])
          /\ Cardinality(ToSet(old_layouts[c])) < Len(old_layouts[c])

\* what each output of the inspector holds: its records when it is a valid
\* output, no record otherwise
Holds(name) ==
    CASE name = "one" -> <<<<1, 0, S1("x"), S1("u")>>>>
      [] name = "moved" -> <<<<16, 0, S1("x"), S1("u")>>>>
      [] name = "dup" -> <<<<1, 0, S1("x"), S1("u")>>, <<2, 0, S1("x"), S1("u")>>,
                           <<1, 0, S1("x"), S1("u")>>>>
      [] name = "typed" -> <<<<3, 1, S1("z"), <<"m", "(", "u", ")", "a", ")">>>>>>
      [] name = "table" -> <<<<3, 1, S1("y"), S1("u")>>>>
      [] OTHER -> <<>>

InspectCalls(ph) == SelectSeq(log, LAMBDA c : c.op = "inspect" /\ c.phase = ph)

\* C10: the collector inspects each identifier once, in list order, and
\* its snapshot has exactly the identifiers whose output was valid with one
\* or more records, each mapped to the records of its own output; no
\* identifier maps to an empty list.
C10_SkipAndContinue ==
    LET returned == pc = "checkout" /\ phase = "new"
        snapshot == IF returned THEN old_layouts ELSE layouts
        calls == InspectCalls("old")
    IN ((phase = "old" /\ pc = "inspect") \/ returned) =>
        /\ returned => idx = Len(all_idents) + 1
        /\ Len(given) = idx - 1
        /\ \A i \in DOMAIN given : given[i][1] = all_idents[i]
        /\ Len(calls) = idx - 1
        /\ \A i \in DOMAIN calls : calls[i].ident = all_idents[i]
        /\ DOMAIN snapshot =
              {given[i][1] : i \in {k \in DOMAIN given : Holds(given[k][2]) # <<>>}}
        /\ \A i \in DOMAIN given :
              Holds(given[i][2]) # <<>> => snapshot[given[i][1]] = Holds(given[i][2])
        /\ \A c \in DOMAIN snapshot : snapshot[c] # <<>>

\* C10 witness: the collector has returned after two identifiers, the first
\* with records, the second with a failed invocation.
C10_Witness ==
    /\ pc = "checkout" /\ phase = "new" /\ Len(given) = 2
    /\ given[1][2] = "typed" /\ given[2][2] = "fail"
    /\ DOMAIN old_layouts = {given[1][1]}

====
